---- MODULE Spec2Model ----
(***************************************************************************)
(* State-machine model of the campus-dating backend.                      *)
(*                                                                         *)
(* The repository holds three servers that implement the same routes:     *)
(*   "phone"    src/backend/server.js lines 170-531 (JWT gate, socket.io),*)
(*   "username" src/backend/server.js lines 1-168   (JWT gate, no socket),*)
(*   "legacy"   src/unnamed/part_000                (no gate, no socket). *)
(* The variable `variant` says which one is deployed.  The messaging,     *)
(* presence and dispatch actions model the "phone" server, the only one   *)
(* with real-time delivery.                                                *)
(*                                                                         *)
(* Every handler is cut at its awaits: one action per continuation.       *)
(* Requests in flight live in `reqs`, one slot per running handler.       *)
(***************************************************************************)
EXTENDS Integers, Sequences, FiniteSets, Bags, TLC

VARIABLES
  variant,    \* which server file is deployed
  users,      \* User collection, in insertion order
  messages,   \* Message collection, in insertion (natural) order
  statuses,   \* Status collection, in insertion order
  groups,     \* Group collection, in insertion order
  rooms,      \* socket.io rooms: room name -> set of joined sockets
  chan,       \* socket -> [state, phone]
  inbox,      \* socket -> bag of events emitted to it
  reqs,       \* slot -> handler in flight (or Idle)
  now,        \* the last value Date.now() returned
  nextId,     \* number of ObjectIds generated so far
  arrivals,   \* number of requests / events accepted so far
  arrivalOf,  \* ObjectId -> arrival number of the request that generated it
  resp        \* the last response written (or socket event finished)

storeVars == <<users, messages, statuses, groups>>
liveVars == <<rooms, chan, inbox>>
vars == <<variant, users, messages, statuses, groups, rooms, chan, inbox,
          reqs, now, nextId, arrivals, arrivalOf, resp>>

-----------------------------------------------------------------------------
(* Bounds of the model *)

MaxClock == 1        \* Date.now() ranges over 0..MaxClock
MaxOrderReqs == 3    \* requests accepted in one behaviour of SpecOrder
MaxHistoryReqs == 2  \* requests accepted in one behaviour of SpecHistory
MaxDeleteReqs == 3   \* requests accepted in one behaviour of SpecDelete
MaxPresenceReqs == 2 \* sends accepted in one behaviour of SpecPresence
MaxGroupReqs == 2    \* sends accepted in one behaviour of SpecGroup
MaxRegisterReqs == 3 \* registrations accepted in one behaviour of SpecRegister
MaxStatusReqs == 3   \* requests accepted in one behaviour of SpecStatus
MaxStatusClock == 1  \* milliseconds the clock may advance in SpecStatus
MaxGateReqs == 2     \* requests accepted in one behaviour of SpecGate
MaxEquivReqs == 2    \* sends accepted in one behaviour of SpecEquiv
MaxFailureReqs == 2  \* sends accepted in one behaviour of SpecFailure
MaxContactsReqs == 2 \* requests accepted in one behaviour of SpecContacts
MaxHandshakeReqs == 3 \* requests accepted in one behaviour of SpecHandshake
MaxOfflineReqs == 3  \* requests accepted in one behaviour of SpecOffline
MaxNoticeReqs == 2   \* deletes accepted in one behaviour of SpecNotice
MaxProfileReqs == 3  \* requests accepted in one behaviour of SpecProfile
MaxIdentityReqs == 2 \* profile updates accepted in one behaviour of SpecIdentity
MaxRaceReqs == 2     \* sends accepted in one behaviour of SpecRace

Slots == {1, 2}
Identities == {"a", "b", "c", "d"}
Channels == {"c1", "c2", "c3", "c4"}

(* Program constants *)
HistoryLimit == 1000
FeedLimit == 50

-----------------------------------------------------------------------------
(* Values *)

Null == "null"              \* JavaScript null
Undefined == "undefined"    \* JavaScript undefined / absent field
Missing == ""               \* the empty string (falsy)
BadId == 0                  \* a path segment that is no well-formed ObjectId

Falsy(v) == v \in {Null, Undefined, Missing}

(* Authorization credentials.  kind "none": no header / no token;          *)
(* "bad": jwt.verify throws; "valid": signed with JWT_SECRET, the payload  *)
(* carries `phone` as /auth/login issues it.                               *)
NoToken == [kind |-> "none", phone |-> Undefined]
BadToken == [kind |-> "bad", phone |-> Undefined]
TokenOf(p) == [kind |-> "valid", phone |-> p]

(* isGroup as it arrives: a JSON boolean, a form-field string, or absent *)
IsGroupInputs == {"bool:true", "bool:false", "str:true", "str:false", Undefined}
RestIsGroup(g) == g \in {"str:true", "bool:true"}
SockIsGroup(g) == g \notin {"bool:false", Undefined}

GroupIdSeq == <<"g1", "g2", "g3", "g4">>
GroupObjectIds == {"g1", "g2", "g3", "g4", "g9"}

NoMsg == [id |-> BadId, sender |-> Undefined, receiver |-> Undefined,
          text |-> Undefined, isGroup |-> FALSE, fileUrl |-> Undefined,
          senderAvatar |-> Undefined, createdAt |-> 0]

NoUser == [id |-> BadId, phone |-> Undefined, username |-> Undefined,
           password |-> Undefined, avatar |-> Undefined]

NoStatus == [id |-> BadId, user |-> Undefined, text |-> Undefined,
             fileUrl |-> Undefined, createdAt |-> 0]

Idle == [kind |-> "idle", pc |-> "idle", user |-> Undefined, arr |-> 0,
         id |-> BadId, phone |-> Undefined, file |-> Null, msg |-> NoMsg,
         doc |-> NoUser, st |-> NoStatus, cred |-> Undefined]

NoResp == [route |-> "none", status |-> 0, error |-> Undefined, cred |-> "none",
           id |-> BadId, phone |-> Undefined, ids |-> <<>>, arr |-> 0,
           asked |-> <<>>, body |-> <<>>, token |-> NoToken]

Min(a, b) == IF a < b THEN a ELSE b
Reverse(s) == [i \in 1..Len(s) |-> s[Len(s) + 1 - i]]

-----------------------------------------------------------------------------
(* Session Gate: authMiddleware of the "phone" server.  A missing header  *)
(* or token answers 401 Unauthorized, a token jwt.verify rejects answers  *)
(* 401 Invalid token, otherwise req.user is the payload's phone.          *)
AuthMiddleware(tok) ==
  IF tok.kind = "none"
    THEN [ok |-> FALSE, status |-> 401, error |-> "Unauthorized", user |-> Undefined]
  ELSE IF tok.kind = "bad"
    THEN [ok |-> FALSE, status |-> 401, error |-> "Invalid token", user |-> Undefined]
  ELSE [ok |-> TRUE, status |-> 200, error |-> Undefined, user |-> tok.phone]

Rejected(route, tok, arr) ==
  [NoResp EXCEPT !.route = route, !.status = AuthMiddleware(tok).status,
                 !.error = AuthMiddleware(tok).error, !.cred = tok.kind, !.arr = arr]

-----------------------------------------------------------------------------
(* Presence Router: socket.io rooms named by phone *)

\* (mutant) the socket joins every room
BindAll(r, id, c) == [x \in DOMAIN r |-> r[x] \cup {c}]

\* socket.join(room): the room's socket set gains the socket
Bind(r, id, c) == [r EXCEPT ![id] = @ \cup {c}]

\* leaving a room: the room's socket set loses the socket
Unbind(r, id, c) == [r EXCEPT ![id] = @ \ {c}]

\* (mutant) the disconnecting socket stays in its rooms
LeaveAllStale(r, c) == r

\* a disconnecting socket leaves every room it joined
LeaveAll(r, c) == [id \in DOMAIN r |-> Unbind(r, id, c)[id]]

\* the sockets io.to(room) addresses
To(r, room) == IF room \in DOMAIN r THEN r[room] ELSE {}

\* (mutant) only one socket of the room is served
EmitToOne(ib, r, room, ev) ==
  [c \in DOMAIN ib |->
     IF To(r, room) # {} /\ c = CHOOSE x \in To(r, room) : TRUE
       THEN ib[c] (+) SetToBag({ev}) ELSE ib[c]]

\* io.to(room).emit(ev): one copy of ev to every socket in the room
Emit(ib, r, room, ev) ==
  [c \in DOMAIN ib |-> IF c \in To(r, room) THEN ib[c] (+) SetToBag({ev}) ELSE ib[c]]

\* (mutant) only the first member is served
EmitFirst(ib, r, members, ev) ==
  IF members = <<>> THEN ib ELSE Emit(ib, r, Head(members), ev)

\* g.members.forEach(m => io.to(m).emit(ev))
RECURSIVE EmitEach(_, _, _, _)
EmitEach(ib, r, members, ev) ==
  IF members = <<>> THEN ib
  ELSE EmitEach(Emit(ib, r, Head(members), ev), r, Tail(members), ev)

MessageEvent(m) == [type |-> "message", id |-> m.id]
DeletedEvent(id) == [type |-> "message-deleted", id |-> id]

-----------------------------------------------------------------------------
(* Store queries *)

\* Model.findById / findOne: the matching documents (empty: null)
ById(coll, id) == SelectSeq(coll, LAMBDA d : d.id = id)
ByPhone(coll, p) == SelectSeq(coll, LAMBDA d : d.phone = p)

\* doc.deleteOne()
RemoveById(coll, id) == SelectSeq(coll, LAMBDA d : d.id # id)

(* Message.find({$or: [...]}).sort({createdAt: 1}).limit(1000).  MongoDB  *)
(* leaves the order of documents with equal sort keys open: `natural`     *)
(* picks insertion order for them, its negation the reverse.              *)
findConversation(coll, user, other, natural) ==
  LET hit(m) == \/ m.sender = user /\ m.receiver = other
                \/ m.sender = other /\ m.receiver = user
      sel == SelectSeq(coll, hit)
      src == IF natural THEN sel ELSE Reverse(sel)
      sorted == SortSeq(src, LAMBDA x, y : x.createdAt < y.createdAt)
  IN  SubSeq(sorted, 1, Min(Len(sorted), HistoryLimit))

Ids(seq) == [i \in 1..Len(seq) |-> seq[i].id]
IdSet(seq) == {seq[i].id : i \in 1..Len(seq)}

-----------------------------------------------------------------------------
(* Handlers in flight *)

FreeSlot(S) == CHOOSE s \in S : reqs[s] = Idle /\ \A t \in S : reqs[t] = Idle => s <= t
HasFree(S) == \E s \in S : reqs[s] = Idle

Accept(S, budget) == arrivals < budget /\ HasFree(S)

-----------------------------------------------------------------------------
(* POST /api/messages ("phone" server): gate, validation, then three      *)
(* awaits: User.findOne, msg.save, and for a group Group.findById.        *)

RestSendArrive(S, budget, tok, sender, receiver, text, isGroup, file) ==
  /\ variant = "phone"
  /\ Accept(S, budget)
  /\ arrivals' = arrivals + 1
  /\ IF ~AuthMiddleware(tok).ok
        THEN /\ resp' = Rejected("send", tok, arrivals + 1)
             /\ reqs' = reqs
      ELSE IF Falsy(sender) \/ Falsy(receiver)
        THEN /\ resp' = [NoResp EXCEPT !.route = "send", !.status = 400,
                            !.error = "sender and receiver required",
                            !.cred = tok.kind, !.arr = arrivals + 1]
             /\ reqs' = reqs
      ELSE /\ resp' = resp
           /\ reqs' = [reqs EXCEPT ![FreeSlot(S)] =
                 [Idle EXCEPT !.kind = "rest-send", !.pc = "findSender",
                    !.user = AuthMiddleware(tok).user, !.arr = arrivals + 1,
                    !.file = file,
                    !.msg = [NoMsg EXCEPT !.sender = sender, !.receiver = receiver,
                               !.text = text, !.isGroup = RestIsGroup(isGroup)]]]
  /\ UNCHANGED <<variant, storeVars, liveVars, now, nextId, arrivalOf>>

\* User.findOne returned: the avatar snapshot is taken, the document is
\* constructed (its _id and createdAt are set here) and save is issued.
\* Date.now() returns some time from the last reading up to the horizon
\* of the scenario.
RestSendFindSender(s, horizon) ==
  /\ reqs[s].kind = "rest-send" /\ reqs[s].pc = "findSender"
  /\ \E t \in now..horizon :
       LET senderUser == ByPhone(users, reqs[s].msg.sender)
           senderAvatar == IF senderUser # <<>> THEN senderUser[1].avatar ELSE Null
           fileUrl == IF reqs[s].file # Null THEN reqs[s].file ELSE Null
       IN  /\ now' = t
           /\ nextId' = nextId + 1
           /\ arrivalOf' = Append(arrivalOf, reqs[s].arr)
           /\ reqs' = [reqs EXCEPT ![s].pc = "save",
                          ![s].msg = [@ EXCEPT !.id = nextId + 1, !.createdAt = t,
                                        !.fileUrl = fileUrl,
                                        !.senderAvatar = senderAvatar]]
  /\ UNCHANGED <<variant, storeVars, liveVars, arrivals, resp>>

Sent(r) ==
  [NoResp EXCEPT !.route = "send", !.status = 200, !.cred = "valid",
                 !.id = r.msg.id, !.arr = r.arr]

SendFailed(r) ==
  [NoResp EXCEPT !.route = "send", !.status = 500, !.error = "Send failed",
                 !.cred = "valid", !.id = r.msg.id, !.arr = r.arr]

\* RestSendSave, had it skipped the save of a group message
RestSendSaveUnsaved(s) ==
  /\ reqs[s].kind = "rest-send" /\ reqs[s].pc = "save"
  /\ IF reqs[s].msg.isGroup
        THEN /\ reqs' = [reqs EXCEPT ![s].pc = "findGroup"]
             /\ UNCHANGED <<messages, inbox, resp>>
        ELSE /\ messages' = Append(messages, reqs[s].msg)
             /\ inbox' = Emit(Emit(inbox, rooms, reqs[s].msg.receiver,
                                    MessageEvent(reqs[s].msg)),
                               rooms, reqs[s].msg.sender, MessageEvent(reqs[s].msg))
             /\ resp' = Sent(reqs[s])
             /\ reqs' = [reqs EXCEPT ![s] = Idle]
  /\ UNCHANGED <<variant, users, statuses, groups, rooms, chan, now, nextId,
                 arrivals, arrivalOf>>

\* msg.save resolved: the document is in the collection; a direct message
\* is emitted to the receiver's room and the sender's room and answered
RestSendSave(s) ==
  /\ reqs[s].kind = "rest-send" /\ reqs[s].pc = "save"
  /\ messages' = Append(messages, reqs[s].msg)
  /\ IF reqs[s].msg.isGroup
        THEN /\ reqs' = [reqs EXCEPT ![s].pc = "findGroup"]
             /\ UNCHANGED <<inbox, resp>>
        ELSE /\ inbox' = Emit(Emit(inbox, rooms, reqs[s].msg.receiver,
                                    MessageEvent(reqs[s].msg)),
                               rooms, reqs[s].msg.sender, MessageEvent(reqs[s].msg))
             /\ resp' = Sent(reqs[s])
             /\ reqs' = [reqs EXCEPT ![s] = Idle]
  /\ UNCHANGED <<variant, users, statuses, groups, rooms, chan, now, nextId,
                 arrivals, arrivalOf>>

\* Group.findById(receiver) settled.  A receiver that is no well-formed
\* ObjectId makes it reject (CastError): the catch answers 500.
RestSendFindGroup(s) ==
  /\ reqs[s].kind = "rest-send" /\ reqs[s].pc = "findGroup"
  /\ IF reqs[s].msg.receiver \notin GroupObjectIds
        THEN /\ resp' = SendFailed(reqs[s])
             /\ inbox' = inbox
        ELSE LET g == ById(groups, reqs[s].msg.receiver)
                 ev == MessageEvent(reqs[s].msg)
                 toMembers == IF g # <<>> /\ Len(g[1].members) > 0
                                THEN EmitEach(inbox, rooms, g[1].members, ev)
                                ELSE inbox
             IN  /\ inbox' = Emit(toMembers, rooms, reqs[s].msg.sender, ev)
                 /\ resp' = Sent(reqs[s])
  /\ reqs' = [reqs EXCEPT ![s] = Idle]
  /\ UNCHANGED <<variant, storeVars, rooms, chan, now, nextId, arrivals, arrivalOf>>

-----------------------------------------------------------------------------
(* socket 'send-message' ("phone" server): no validation; the document is *)
(* constructed at once, then msg.save and for a group Group.findById are  *)
(* awaited; any throw is caught and logged.                               *)

SockSendArrive(S, budget, horizon, c, sender, receiver, text, isGroup) ==
  /\ variant = "phone"
  /\ chan[c].state = "open"
  /\ Accept(S, budget)
  /\ arrivals' = arrivals + 1
  /\ \E t \in now..horizon :
       /\ now' = t
       /\ nextId' = nextId + 1
       /\ arrivalOf' = Append(arrivalOf, arrivals + 1)
       /\ reqs' = [reqs EXCEPT ![FreeSlot(S)] =
             [Idle EXCEPT !.kind = "sock-send", !.pc = "save",
                !.user = chan[c].phone, !.arr = arrivals + 1,
                !.msg = [NoMsg EXCEPT !.id = nextId + 1, !.sender = sender,
                           !.receiver = receiver, !.text = text,
                           !.isGroup = SockIsGroup(isGroup), !.createdAt = t]]]
  /\ UNCHANGED <<variant, storeVars, liveVars, resp>>

SockDone(r) ==
  [NoResp EXCEPT !.route = "send-message", !.cred = "valid", !.id = r.msg.id,
                 !.arr = r.arr]

\* SockSendSave, had it emitted a direct message without saving it
SockSendSaveUnsaved(s) ==
  /\ reqs[s].kind = "sock-send" /\ reqs[s].pc = "save"
  /\ IF reqs[s].msg.isGroup
        THEN /\ messages' = Append(messages, reqs[s].msg)
             /\ reqs' = [reqs EXCEPT ![s].pc = "findGroup"]
             /\ UNCHANGED <<inbox, resp>>
        ELSE /\ messages' = messages
             /\ inbox' = Emit(Emit(inbox, rooms, reqs[s].msg.receiver,
                                    MessageEvent(reqs[s].msg)),
                               rooms, reqs[s].msg.sender, MessageEvent(reqs[s].msg))
             /\ resp' = SockDone(reqs[s])
             /\ reqs' = [reqs EXCEPT ![s] = Idle]
  /\ UNCHANGED <<variant, users, statuses, groups, rooms, chan, now, nextId,
                 arrivals, arrivalOf>>

SockSendSave(s) ==
  /\ reqs[s].kind = "sock-send" /\ reqs[s].pc = "save"
  /\ messages' = Append(messages, reqs[s].msg)
  /\ IF reqs[s].msg.isGroup
        THEN /\ reqs' = [reqs EXCEPT ![s].pc = "findGroup"]
             /\ UNCHANGED <<inbox, resp>>
        ELSE /\ inbox' = Emit(Emit(inbox, rooms, reqs[s].msg.receiver,
                                    MessageEvent(reqs[s].msg)),
                               rooms, reqs[s].msg.sender, MessageEvent(reqs[s].msg))
             /\ resp' = SockDone(reqs[s])
             /\ reqs' = [reqs EXCEPT ![s] = Idle]
  /\ UNCHANGED <<variant, users, statuses, groups, rooms, chan, now, nextId,
                 arrivals, arrivalOf>>

SockSendFindGroup(s) ==
  /\ reqs[s].kind = "sock-send" /\ reqs[s].pc = "findGroup"
  /\ IF reqs[s].msg.receiver \notin GroupObjectIds
        THEN inbox' = inbox
        ELSE LET g == ById(groups, reqs[s].msg.receiver)
                 ev == MessageEvent(reqs[s].msg)
                 toMembers == IF g # <<>>
                                THEN EmitEach(inbox, rooms, g[1].members, ev)
                                ELSE inbox
             IN  inbox' = Emit(toMembers, rooms, reqs[s].msg.sender, ev)
  /\ resp' = SockDone(reqs[s])
  /\ reqs' = [reqs EXCEPT ![s] = Idle]
  /\ UNCHANGED <<variant, storeVars, rooms, chan, now, nextId, arrivals, arrivalOf>>

-----------------------------------------------------------------------------
(* DELETE /api/message/:id/:phone ("phone" server): gate, then awaits     *)
(* Message.findById and msg.deleteOne.  The owner check compares the      *)
(* stored sender with the :phone path parameter.                          *)

DeleteArrive(S, budget, tok, id, phone) ==
  /\ variant = "phone"
  /\ Accept(S, budget)
  /\ arrivals' = arrivals + 1
  /\ IF ~AuthMiddleware(tok).ok
        THEN /\ resp' = [Rejected("delete", tok, arrivals + 1) EXCEPT
                            !.id = id, !.phone = phone]
             /\ reqs' = reqs
        ELSE /\ resp' = resp
             /\ reqs' = [reqs EXCEPT ![FreeSlot(S)] =
                   [Idle EXCEPT !.kind = "delete", !.pc = "findById",
                      !.user = AuthMiddleware(tok).user, !.arr = arrivals + 1,
                      !.id = id, !.phone = phone]]
  /\ UNCHANGED <<variant, storeVars, liveVars, now, nextId, arrivalOf>>

DeleteResp(r, status, error) ==
  [NoResp EXCEPT !.route = "delete", !.status = status, !.error = error,
                 !.cred = "valid", !.id = r.id, !.phone = r.phone, !.arr = r.arr]

\* Message.findById settled: CastError (500), null (404), not the sender
\* (403), or the document is kept and deleteOne is issued
DeleteFind(s) ==
  /\ reqs[s].kind = "delete" /\ reqs[s].pc = "findById"
  /\ LET found == ById(messages, reqs[s].id)
     IN  IF reqs[s].id = BadId
           THEN /\ resp' = DeleteResp(reqs[s], 500, "Delete failed")
                /\ reqs' = [reqs EXCEPT ![s] = Idle]
         ELSE IF found = <<>>
           THEN /\ resp' = DeleteResp(reqs[s], 404, "Message not found")
                /\ reqs' = [reqs EXCEPT ![s] = Idle]
         ELSE IF found[1].sender # reqs[s].phone
           THEN /\ resp' = DeleteResp(reqs[s], 403, "Forbidden")
                /\ reqs' = [reqs EXCEPT ![s] = Idle]
         ELSE /\ resp' = resp
              /\ reqs' = [reqs EXCEPT ![s].pc = "deleteOne", ![s].msg = found[1]]
  /\ UNCHANGED <<variant, storeVars, liveVars, now, nextId, arrivals, arrivalOf>>

\* (mutant) the notice also goes to the sender's room
DeleteRemoveToSender(s) ==
  /\ reqs[s].kind = "delete" /\ reqs[s].pc = "deleteOne"
  /\ messages' = RemoveById(messages, reqs[s].msg.id)
  /\ inbox' = Emit(Emit(inbox, rooms, reqs[s].msg.receiver, DeletedEvent(reqs[s].id)),
                   rooms, reqs[s].msg.sender, DeletedEvent(reqs[s].id))
  /\ resp' = DeleteResp(reqs[s], 200, Undefined)
  /\ reqs' = [reqs EXCEPT ![s] = Idle]
  /\ UNCHANGED <<variant, users, statuses, groups, rooms, chan, now, nextId,
                 arrivals, arrivalOf>>

\* msg.deleteOne resolved: the document is gone (a no-op when another
\* delete took it first), the notice goes to the receiver's room
DeleteRemove(s) ==
  /\ reqs[s].kind = "delete" /\ reqs[s].pc = "deleteOne"
  /\ messages' = RemoveById(messages, reqs[s].msg.id)
  /\ inbox' = Emit(inbox, rooms, reqs[s].msg.receiver, DeletedEvent(reqs[s].id))
  /\ resp' = DeleteResp(reqs[s], 200, Undefined)
  /\ reqs' = [reqs EXCEPT ![s] = Idle]
  /\ UNCHANGED <<variant, users, statuses, groups, rooms, chan, now, nextId,
                 arrivals, arrivalOf>>

-----------------------------------------------------------------------------
(* GET /api/messages/:user/:other ("phone" server): gate, one awaited     *)
(* query, the documents are the response.                                 *)

GetMessages(budget, tok, user, other, natural) ==
  /\ variant = "phone"
  /\ arrivals < budget
  /\ arrivals' = arrivals + 1
  /\ resp' = IF ~AuthMiddleware(tok).ok
               THEN Rejected("history", tok, arrivals + 1)
               ELSE [NoResp EXCEPT !.route = "history", !.status = 200,
                       !.cred = tok.kind, !.arr = arrivals + 1,
                       !.ids = Ids(findConversation(messages, user, other, natural))]
  /\ UNCHANGED <<variant, storeVars, liveVars, reqs, now, nextId, arrivalOf>>

-----------------------------------------------------------------------------
(* socket.io handshake and disconnect ("phone" server) *)

\* (mutant) a handshake that replays the stored messages of the identity
ConnectReplay(c, tok) ==
  /\ variant = "phone"
  /\ chan[c].state = "new"
  /\ IF tok.kind # "valid"
        THEN /\ chan' = [chan EXCEPT ![c].state = "refused"]
             /\ rooms' = rooms
             /\ inbox' = inbox
        ELSE /\ chan' = [chan EXCEPT ![c] = [state |-> "open", phone |-> tok.phone]]
             /\ rooms' = Bind(rooms, tok.phone, c)
             /\ inbox' = [inbox EXCEPT ![c] = @ (+) SetToBag(
                   {MessageEvent(messages[i]) : i \in {j \in 1..Len(messages) :
                                                        messages[j].receiver = tok.phone}})]
  /\ UNCHANGED <<variant, storeVars, reqs, now, nextId, arrivals, arrivalOf, resp>>

\* io.use: no token or a token jwt.verify rejects: next(Error), the socket
\* is refused; otherwise it joins the room named payload.phone
Connect(c, tok) ==
  /\ variant = "phone"
  /\ chan[c].state = "new"
  /\ IF tok.kind # "valid"
        THEN /\ chan' = [chan EXCEPT ![c].state = "refused"]
             /\ rooms' = rooms
        ELSE /\ chan' = [chan EXCEPT ![c] = [state |-> "open", phone |-> tok.phone]]
             /\ rooms' = Bind(rooms, tok.phone, c)
  /\ UNCHANGED <<variant, storeVars, inbox, reqs, now, nextId, arrivals,
                 arrivalOf, resp>>

\* 'disconnect': the handler logs; socket.io takes the socket out of its rooms
Disconnect(c) ==
  /\ chan[c].state = "open"
  /\ chan' = [chan EXCEPT ![c].state = "closed"]
  /\ rooms' = LeaveAll(rooms, c)
  /\ UNCHANGED <<variant, storeVars, inbox, reqs, now, nextId, arrivals,
                 arrivalOf, resp>>

-----------------------------------------------------------------------------
(* POST /api/groups/create ("phone" server): gate, one awaited save *)

CreateGroup(budget, tok, name, members) ==
  /\ variant = "phone"
  /\ arrivals < budget
  /\ Len(groups) < Len(GroupIdSeq)
  /\ arrivals' = arrivals + 1
  /\ IF ~AuthMiddleware(tok).ok
        THEN /\ resp' = Rejected("group-create", tok, arrivals + 1)
             /\ groups' = groups
        ELSE /\ groups' = Append(groups, [id |-> GroupIdSeq[Len(groups) + 1],
                                            name |-> name, members |-> members])
             /\ resp' = [NoResp EXCEPT !.route = "group-create", !.status = 200,
                            !.cred = tok.kind, !.arr = arrivals + 1]
  /\ UNCHANGED <<variant, users, messages, statuses, liveVars, reqs, now, nextId,
                 arrivalOf>>

-----------------------------------------------------------------------------
(* Initial states *)

\* the socket an identity uses where a scenario gives each identity one
ChannelOf(id) == CASE id = "a" -> "c1" [] id = "b" -> "c2" [] id = "c" -> "c3"
                   [] OTHER -> "c4"

UserDoc(i, p, av) ==
  [NoUser EXCEPT !.id = i, !.phone = p, !.username = Missing, !.password = "hash",
                 !.avatar = av]

\* the accounts the messaging scenarios start with (a has an avatar)
BaseUsers == <<UserDoc(1, "a", "/uploads/a.png"), UserDoc(2, "b", Null),
               UserDoc(3, "c", Null), UserDoc(4, "d", Null)>>

\* `online`: the identities whose socket has already passed the handshake;
\* `t0`: the time of the last Date.now() reading
InitAt(v, us, ms, ss, gs, online, t0) ==
  /\ variant = v
  /\ users = us
  /\ messages = ms
  /\ statuses = ss
  /\ groups = gs
  /\ rooms = [id \in Identities |-> IF id \in online THEN {ChannelOf(id)} ELSE {}]
  /\ chan = [c \in Channels |->
               IF \E id \in online : ChannelOf(id) = c
                 THEN [state |-> "open", phone |-> CHOOSE id \in online : ChannelOf(id) = c]
                 ELSE [state |-> "new", phone |-> Undefined]]
  /\ inbox = [c \in Channels |-> EmptyBag]
  /\ reqs = [s \in Slots |-> Idle]
  /\ now = t0
  /\ nextId = Len(ms) + Len(ss)
  /\ arrivals = 0
  /\ arrivalOf = [i \in 1..(Len(ms) + Len(ss)) |-> 0]
  /\ resp = NoResp

InitWith(v, us, ms, ss, gs, online) == InitAt(v, us, ms, ss, gs, online, 0)

-----------------------------------------------------------------------------
(* SpecOrder: concurrent REST sends from a to b, and history reads *)

InitOrder == InitWith("phone", BaseUsers, <<>>, <<>>, <<>>, {})

NextOrder ==
  \/ \E text \in {"t1", "t2"} :
       RestSendArrive(Slots, MaxOrderReqs, TokenOf("a"), "a", "b", text, Undefined, Null)
  \/ \E s \in Slots : RestSendFindSender(s, MaxClock)
  \/ \E s \in Slots : RestSendSave(s)
  \/ \E natural \in BOOLEAN :
       GetMessages(MaxOrderReqs, TokenOf("a"), "a", "b", natural)

SpecOrder == InitOrder /\ [][NextOrder]_vars

\* position of the document with this id in a sequence of documents (0: absent)
PosOf(seq, id) ==
  IF id \in IdSet(seq) THEN CHOOSE i \in 1..Len(seq) : seq[i].id = id ELSE 0

(* C2: of two stored messages with the same sender and receiver, the one  *)
(* whose request arrived at the server first was persisted first and      *)
(* stands first in findConversation, whatever the interleaving of the two *)
(* handlers.  (Equal creation times are read in the claim's favour: the   *)
(* query is taken to return them in insertion order.)                     *)
C2_ArrivalOrderIsStoreOrder ==
  \A i, j \in 1..Len(messages) :
    (/\ messages[i].sender = messages[j].sender
     /\ messages[i].receiver = messages[j].receiver
     /\ arrivalOf[messages[i].id] < arrivalOf[messages[j].id])
    => /\ i < j
       /\ LET conv == findConversation(messages, messages[i].sender,
                                       messages[i].receiver, TRUE)
          IN  PosOf(conv, messages[i].id) < PosOf(conv, messages[j].id)

-----------------------------------------------------------------------------
(* SpecHistory: a conversation between a and b that already holds up to   *)
(* HistoryLimit messages; further sends, deletes of old messages, reads.  *)

OldMessage(i) ==
  [NoMsg EXCEPT !.id = i, !.sender = IF i % 2 = 1 THEN "a" ELSE "b",
                !.receiver = IF i % 2 = 1 THEN "b" ELSE "a", !.text = "old",
                !.fileUrl = Null, !.senderAvatar = Null]

Backlog(n) == [i \in 1..n |-> OldMessage(i)]

InitHistory ==
  \E n \in {1, HistoryLimit - 1, HistoryLimit} :
    InitWith("phone", BaseUsers, Backlog(n), <<>>, <<>>, {})

NextHistory ==
  \/ \E p \in {"a", "b"} :
       RestSendArrive(Slots, MaxHistoryReqs, TokenOf(p), p,
                      IF p = "a" THEN "b" ELSE "a", "t1", "str:false", Null)
  \/ \E s \in Slots : RestSendFindSender(s, 0)
  \/ \E s \in Slots : RestSendSave(s)
  \/ DeleteArrive(Slots, MaxHistoryReqs, TokenOf("a"), 1, "a")
  \/ \E s \in Slots : DeleteFind(s)
  \/ \E s \in Slots : DeleteRemove(s)
  \/ \E natural \in BOOLEAN :
       GetMessages(MaxHistoryReqs, TokenOf("b"), "b", "a", natural)

SpecHistory == InitHistory /\ [][NextHistory]_vars

\* how many documents of a sequence carry this id
Count(seq, id) == Cardinality({i \in 1..Len(seq) : seq[i].id = id})

(* C1: after a successful non-group REST send, findConversation(sender,   *)
(* receiver) holds exactly one record of that send, however many messages *)
(* the pair already has.                                                   *)
C1_SentIsInHistory ==
  (resp.route = "send" /\ resp.status = 200)
  => LET m == ById(messages, resp.id)
     IN  /\ m # <<>>
         /\ \A natural \in BOOLEAN :
              Count(findConversation(messages, m[1].sender, m[1].receiver, natural),
                    resp.id) = 1


-----------------------------------------------------------------------------
(* SpecDelete: a and b exchange direct messages and delete them; b has a  *)
(* socket that may be connected.                                           *)

InitDelete == InitWith("phone", BaseUsers, <<>>, <<>>, <<>>, {})

NextDelete ==
  \/ \E p \in {"a", "b"} :
       RestSendArrive(Slots, MaxDeleteReqs, TokenOf(p), p,
                      IF p = "a" THEN "b" ELSE "a", "t1", Undefined, Null)
  \/ \E s \in Slots : RestSendFindSender(s, 0)
  \/ \E s \in Slots : RestSendSave(s)
  \/ \E p \in {"a", "b"}, id \in {BadId, 1, 2}, phone \in {"a", "b"} :
       DeleteArrive(Slots, MaxDeleteReqs, TokenOf(p), id, phone)
  \/ \E s \in Slots : DeleteFind(s)
  \/ \E s \in Slots : DeleteRemove(s)
  \/ Connect("c1", TokenOf("b"))
  \/ Disconnect("c1")

SpecDelete == InitDelete /\ [][NextDelete]_vars

InHistory(coll, id) ==
  \E u, o \in Identities, natural \in BOOLEAN :
    id \in IdSet(findConversation(coll, u, o, natural))

(* C3: deleteMessage(id, requester): when the stored message has another  *)
(* sender the answer is 403, the store is unchanged and nothing is        *)
(* emitted; when no record has the id the answer is 404; when the         *)
(* requester is the sender the record is removed and no findConversation  *)
(* holds it afterwards.                                                    *)
C3_DeleteOutcomes ==
  [][\A s \in Slots :
       /\ (reqs[s].kind = "delete" /\ reqs[s].pc = "findById" /\ reqs'[s] # reqs[s])
          => LET rec == ById(messages, reqs[s].id)
             IN  /\ rec = <<>> => resp'.status = 404
                 /\ (rec # <<>> /\ rec[1].sender # reqs[s].phone)
                    => /\ resp'.status = 403
                       /\ messages' = messages
                       /\ inbox' = inbox
                 /\ (rec # <<>> /\ rec[1].sender = reqs[s].phone)
                    => reqs'[s].pc = "deleteOne"
       /\ (reqs[s].kind = "delete" /\ reqs[s].pc = "deleteOne" /\ reqs'[s] # reqs[s])
          => /\ resp'.status = 200
             /\ reqs[s].id \notin IdSet(messages')
             /\ ~InHistory(messages', reqs[s].id)]_vars

(* C4: a message record leaves the store only in a step of a delete       *)
(* request whose authenticated identity (req.user, from the token) is the *)
(* message's sender.                                                       *)
C4_OnlyAuthenticatedSenderDeletes ==
  [][\A i \in 1..Len(messages) :
       messages[i].id \notin IdSet(messages')
       => \E s \in Slots : /\ reqs[s].kind = "delete"
                           /\ reqs[s].id = messages[i].id
                           /\ reqs[s].user = messages[i].sender]_vars

-----------------------------------------------------------------------------
(* SpecPresence: a uses two sockets (c1, c2), b one (c3); they connect,   *)
(* disconnect, and direct messages between a and b are sent on both paths.*)

InitPresence == InitWith("phone", BaseUsers, <<>>, <<>>, <<>>, {})

NextPresence ==
  \/ \E c \in {"c1", "c2"} : Connect(c, TokenOf("a"))
  \/ Connect("c3", TokenOf("b"))
  \/ \E c \in Channels : Disconnect(c)
  \/ RestSendArrive(Slots, MaxPresenceReqs, TokenOf("b"), "b", "a", "t1", "bool:false", Null)
  \/ \E s \in Slots : RestSendFindSender(s, 0)
  \/ \E s \in Slots : RestSendSave(s)
  \/ SockSendArrive(Slots, MaxPresenceReqs, 0, "c3", "b", "a", "t1", "bool:false")
  \/ \E s \in Slots : SockSendSave(s)

SpecPresence == InitPresence /\ [][NextPresence]_vars

\* the channel has passed the handshake as this identity and not closed since
BoundTo(c, id) == chan[c].state = "open" /\ chan[c].phone = id

\* handler s is about to emit its direct message (its save has resolved)
DirectPush(s) ==
  /\ reqs[s].kind \in {"rest-send", "sock-send"}
  /\ reqs[s].pc = "save"
  /\ ~reqs[s].msg.isGroup
  /\ reqs'[s] = Idle

-----------------------------------------------------------------------------
(* SpecGroup: group g1 = {a, b, c} exists; a (a member) and d (not a      *)
(* member) send group messages on both paths to g1, to the well-formed    *)
(* but unused id g9 and to "b", which is no ObjectId; each identity has   *)
(* one socket, connected before the scenario starts or not at all.        *)

GroupABC == [id |-> "g1", name |-> "abc", members |-> <<"a", "b", "c">>]

InitGroup ==
  \E online \in {{}, {"b", "c"}, {"a", "b", "d"}, Identities} :
    InitWith("phone", BaseUsers, <<>>, <<>>, <<GroupABC>>, online)

NextGroup ==
  \/ \E p \in {"a", "d"}, g \in {"g1", "g9", "b"} :
       RestSendArrive(Slots, MaxGroupReqs, TokenOf(p), p, g, "t1", "str:true", Null)
  \/ \E s \in Slots : RestSendFindSender(s, 0)
  \/ \E s \in Slots : RestSendSave(s)
  \/ \E s \in Slots : RestSendFindGroup(s)
  \/ \E p \in {"a", "d"}, g \in {"g1", "g9", "b"} :
       SockSendArrive(Slots, MaxGroupReqs, 0, ChannelOf(p), p, g, "t1", "bool:true")
  \/ \E s \in Slots : SockSendSave(s)
  \/ \E s \in Slots : SockSendFindGroup(s)

SpecGroup == InitGroup /\ [][NextGroup]_vars

Range(seq) == {seq[i] : i \in 1..Len(seq)}

\* handler s has its group lookup settled and finishes in this step
GroupDispatch(s) ==
  /\ reqs[s].kind \in {"rest-send", "sock-send"}
  /\ reqs[s].pc = "findGroup"
  /\ reqs'[s] = Idle

(* C6: when a group message (isGroup true) is dispatched and its receiver *)
(* is an existing group, every channel bound to a member of the group and *)
(* every channel bound to the sender gets the 'message' event, on the     *)
(* REST path and on the socket path, member or not.                       *)
C6_GroupDispatchReachesMembersAndSender ==
  [][\A s \in Slots :
       (GroupDispatch(s) /\ ById(groups, reqs[s].msg.receiver) # <<>>)
       => \A c \in Channels :
            (\E id \in Range(ById(groups, reqs[s].msg.receiver)[1].members)
                          \cup {reqs[s].msg.sender} : BoundTo(c, id))
            => CopiesIn(MessageEvent(reqs[s].msg), inbox'[c])
                 > CopiesIn(MessageEvent(reqs[s].msg), inbox[c])]_vars

\* the store holds a group message of this path, sent by d (no member) to g1,
\* that the sockets of a, b, c and d all got
GotByAll(viaRest) ==
  \E i \in 1..Len(messages) :
    /\ messages[i].isGroup /\ messages[i].receiver = "g1"
    /\ messages[i].sender = "d"
    /\ (messages[i].senderAvatar # Undefined) = viaRest
    /\ \A c \in {"c1", "c2", "c3", "c4"} : BagIn(MessageEvent(messages[i]), inbox[c])

C6_Witness == GotByAll(TRUE) /\ GotByAll(FALSE)

NoSuchGroup(s) ==
  GroupDispatch(s) /\ ById(groups, reqs[s].msg.receiver) = <<>>

Recoverable(m, user, other) ==
  \A natural \in BOOLEAN : m.id \in IdSet(findConversation(messages, user, other, natural))

(* C18: every stored message is in the history its recipients fetch: a    *)
(* direct message in findConversation(receiver, sender), a group message  *)
(* to an existing group in findConversation(r, groupId) of every member r *)
(* other than the sender.                                                  *)
C18_PushedIsRecoverable ==
  \A i \in 1..Len(messages) :
    LET m == messages[i]
        g == ById(groups, m.receiver)
    IN  /\ ~m.isGroup => Recoverable(m, m.receiver, m.sender)
        /\ (m.isGroup /\ g # <<>>)
           => \A r \in Range(g[1].members) \ {m.sender} : Recoverable(m, r, m.receiver)

(* C13: once the message is saved, the REST send answers 200 with the    *)
(* message and the record is in the store, whatever the group lookup and  *)
(* the emits do - also when the lookup fails.                             *)
C13_DispatchFailureStillSucceeds ==
  [][\A s \in Slots :
       (GroupDispatch(s) /\ reqs[s].kind = "rest-send")
       => /\ resp'.status = 200
          /\ resp'.id = reqs[s].msg.id
          /\ reqs[s].msg.id \in IdSet(messages')]_vars

-----------------------------------------------------------------------------
(* POST /auth/register, as each of the three servers implements it.  No   *)
(* server puts the gate before it.                                         *)

\* countryCode + phone, on the phone numbers of the scenarios
Concat(cc, phone) == CASE cc = "+" /\ phone = "1" -> "+1"
                       [] cc = "+" /\ phone = "2" -> "+2"
                       [] OTHER -> phone

StartsWithPlus(phone) == phone \in {"+1", "+2"}

\* bcrypt.hash(password, 10)
Hash(password) == IF password = "pw" THEN "hash" ELSE "hash2"

RegisterResp(r, status, error) ==
  [NoResp EXCEPT !.route = "register", !.status = status, !.error = error,
                 !.phone = r.doc.phone, !.arr = r.arr]

\* "phone" server: the phone is normalised, phone and password are required,
\* then User.findOne({$or: [{phone}, {username}]}) is awaited
PhoneRegisterArrive(S, budget, phone, countryCode, username, password) ==
  /\ variant = "phone"
  /\ Accept(S, budget)
  /\ arrivals' = arrivals + 1
  /\ LET ph == IF ~Falsy(countryCode) /\ ~Falsy(phone) /\ ~StartsWithPlus(phone)
                 THEN Concat(countryCode, phone) ELSE phone
         r == [Idle EXCEPT !.kind = "phone-register", !.pc = "findOne",
                 !.arr = arrivals + 1,
                 !.doc = [NoUser EXCEPT !.phone = ph, !.username = username,
                            !.password = password]]
     IN  IF Falsy(ph) \/ Falsy(password)
           THEN /\ resp' = RegisterResp(r, 400, "phone and password required")
                /\ reqs' = reqs
           ELSE /\ resp' = resp
                /\ reqs' = [reqs EXCEPT ![FreeSlot(S)] = r]
  /\ UNCHANGED <<variant, storeVars, liveVars, now, nextId, arrivalOf>>

\* the duplicate check: any user with this phone, or with this username
PhoneRegisterFindOne(s) ==
  /\ reqs[s].kind = "phone-register" /\ reqs[s].pc = "findOne"
  /\ LET existing == SelectSeq(users, LAMBDA u :
                        \/ u.phone = reqs[s].doc.phone
                        \/ (reqs[s].doc.username # Undefined
                              /\ u.username = reqs[s].doc.username))
     IN  IF existing # <<>>
           THEN /\ resp' = RegisterResp(reqs[s], 400,
                              IF existing[1].phone = reqs[s].doc.phone
                                THEN "Phone already registered"
                              ELSE IF ~Falsy(reqs[s].doc.username)
                                      /\ existing[1].username = reqs[s].doc.username
                                THEN "Username already taken"
                              ELSE "Already exists")
                /\ reqs' = [reqs EXCEPT ![s] = Idle]
           ELSE /\ resp' = resp
                /\ reqs' = [reqs EXCEPT ![s].pc = "save"]
  /\ UNCHANGED <<variant, storeVars, liveVars, now, nextId, arrivals, arrivalOf>>

\* bcrypt.hash and user.save() settled.  models/User.js puts a unique
\* (sparse) index on phone and on username: a duplicate of either makes
\* save reject with code 11000, answered 400.
PhoneRegisterSave(s) ==
  /\ reqs[s].kind = "phone-register" /\ reqs[s].pc = "save"
  /\ LET doc == [reqs[s].doc EXCEPT !.id = nextId + 1,
                    !.username = IF Falsy(@) THEN Missing ELSE @,
                    !.password = Hash(@), !.avatar = Null]
         clash == \E i \in 1..Len(users) :
                    users[i].phone = doc.phone \/ users[i].username = doc.username
     IN  IF clash
           THEN /\ resp' = RegisterResp(reqs[s], 400, "Duplicate key")
                /\ users' = users
           ELSE /\ resp' = [RegisterResp(reqs[s], 201, Undefined) EXCEPT
                              !.body = <<[phone |-> doc.phone, username |-> doc.username,
                                          avatar |-> doc.avatar]>>]
                /\ users' = Append(users, doc)
  /\ nextId' = nextId + 1
  /\ arrivalOf' = Append(arrivalOf, reqs[s].arr)
  /\ reqs' = [reqs EXCEPT ![s] = Idle]
  /\ UNCHANGED <<variant, messages, statuses, groups, liveVars, now, arrivals>>

\* "username" server: bcrypt.hash is awaited, then user.save()
UserRegisterArrive(S, budget, username, password) ==
  /\ variant = "username"
  /\ Accept(S, budget)
  /\ arrivals' = arrivals + 1
  /\ reqs' = [reqs EXCEPT ![FreeSlot(S)] =
        [Idle EXCEPT !.kind = "user-register", !.pc = "save", !.arr = arrivals + 1,
           !.doc = [NoUser EXCEPT !.username = username, !.password = password]]]
  /\ UNCHANGED <<variant, storeVars, liveVars, now, nextId, arrivalOf, resp>>

\* its schema makes username unique: a duplicate makes save reject, the
\* catch answers 400
UserRegisterSave(s) ==
  /\ reqs[s].kind = "user-register" /\ reqs[s].pc = "save"
  /\ LET doc == [reqs[s].doc EXCEPT !.id = nextId + 1, !.password = Hash(@),
                    !.avatar = Null]
         clash == \E i \in 1..Len(users) : users[i].username = doc.username
     IN  IF clash
           THEN /\ resp' = [RegisterResp(reqs[s], 400, "E11000 duplicate key")
                              EXCEPT !.phone = doc.username]
                /\ users' = users
           ELSE /\ resp' = [RegisterResp(reqs[s], 201, Undefined)
                              EXCEPT !.phone = doc.username]
                /\ users' = Append(users, doc)
  /\ nextId' = nextId + 1
  /\ arrivalOf' = Append(arrivalOf, reqs[s].arr)
  /\ reqs' = [reqs EXCEPT ![s] = Idle]
  /\ UNCHANGED <<variant, messages, statuses, groups, liveVars, now, arrivals>>

\* "legacy" server: bcrypt.hash is awaited, then user.save()
LegacyRegisterArrive(S, budget, username, password) ==
  /\ variant = "legacy"
  /\ Accept(S, budget)
  /\ arrivals' = arrivals + 1
  /\ reqs' = [reqs EXCEPT ![FreeSlot(S)] =
        [Idle EXCEPT !.kind = "legacy-register", !.pc = "save", !.arr = arrivals + 1,
           !.doc = [NoUser EXCEPT !.username = username, !.password = password]]]
  /\ UNCHANGED <<variant, storeVars, liveVars, now, nextId, arrivalOf, resp>>

\* its schema has no unique field and the handler no check: save inserts
LegacyRegisterSave(s) ==
  /\ reqs[s].kind = "legacy-register" /\ reqs[s].pc = "save"
  /\ users' = Append(users, [reqs[s].doc EXCEPT !.id = nextId + 1,
                                !.password = Hash(@), !.avatar = Null])
  /\ resp' = [RegisterResp(reqs[s], 200, Undefined) EXCEPT !.phone = reqs[s].doc.username]
  /\ nextId' = nextId + 1
  /\ arrivalOf' = Append(arrivalOf, reqs[s].arr)
  /\ reqs' = [reqs EXCEPT ![s] = Idle]
  /\ UNCHANGED <<variant, messages, statuses, groups, liveVars, now, arrivals>>

-----------------------------------------------------------------------------
(* SpecRegister: any of the three servers, empty User collection,         *)
(* concurrent registrations of two identities.                            *)

InitRegister ==
  \E v \in {"phone", "username", "legacy"} :
    InitWith(v, <<>>, <<>>, <<>>, <<>>, {})

NextRegister ==
  \/ \E phone \in {"1", "+1", "+2", Undefined}, cc \in {"+", Undefined},
        username \in {"u", Missing, Undefined}, password \in {"pw", Undefined} :
       PhoneRegisterArrive(Slots, MaxRegisterReqs, phone, cc, username, password)
  \/ \E s \in Slots : PhoneRegisterFindOne(s)
  \/ \E s \in Slots : PhoneRegisterSave(s)
  \/ \E username \in {"u", "v"} :
       UserRegisterArrive(Slots, MaxRegisterReqs, username, "pw")
  \/ \E s \in Slots : UserRegisterSave(s)
  \/ \E username \in {"u", "v"} :
       LegacyRegisterArrive(Slots, MaxRegisterReqs, username, "pw")
  \/ \E s \in Slots : LegacyRegisterSave(s)

SpecRegister == InitRegister /\ [][NextRegister]_vars

\* the identity key of a user record: phone on the "phone" server, username
\* on the other two
IdentityKey(u) == IF variant = "phone" THEN u.phone ELSE u.username

Registering(s) ==
  /\ reqs[s].kind \in {"phone-register", "user-register", "legacy-register"}
  /\ reqs[s].pc = "save"
  /\ reqs'[s] = Idle

(* C8: a registration whose identity is already registered is answered   *)
(* 400 and adds no user record; the store never holds two user records   *)
(* with the same identity key, also when registrations interleave.       *)
C8_OneRecordPerIdentity ==
  /\ [][\A s \in Slots :
          (Registering(s)
            /\ \E i \in 1..Len(users) : IdentityKey(users[i]) = IdentityKey(reqs[s].doc))
          => (resp'.status = 400 /\ users' = users)]_vars
  /\ [](\A i, j \in 1..Len(users) :
          i # j => IdentityKey(users[i]) # IdentityKey(users[j]))

-----------------------------------------------------------------------------
(* POST /status and GET /status/feed, on the "phone" server (behind the   *)
(* gate) and on the "legacy" server.                                      *)

StatusResp(r, status, cred) ==
  [NoResp EXCEPT !.route = "status", !.status = status, !.cred = cred,
                 !.id = r.st.id, !.arr = r.arr]

\* "phone": gate, new Status({user: req.user, text, fileUrl}) - which sets
\* _id and createdAt - then st.save() is awaited
PostStatusArrive(S, budget, horizon, tok, text, file) ==
  /\ variant = "phone"
  /\ Accept(S, budget)
  /\ arrivals' = arrivals + 1
  /\ IF ~AuthMiddleware(tok).ok
       THEN /\ resp' = Rejected("status", tok, arrivals + 1)
            /\ UNCHANGED <<reqs, now, nextId, arrivalOf>>
       ELSE \E t \in now..horizon :
              /\ now' = t
              /\ nextId' = nextId + 1
              /\ arrivalOf' = Append(arrivalOf, arrivals + 1)
              /\ reqs' = [reqs EXCEPT ![FreeSlot(S)] =
                    [Idle EXCEPT !.kind = "post-status", !.pc = "save",
                       !.user = AuthMiddleware(tok).user, !.arr = arrivals + 1,
                       !.st = [id |-> nextId + 1, user |-> AuthMiddleware(tok).user,
                               text |-> IF Falsy(text) THEN Missing ELSE text,
                               fileUrl |-> IF file = Null THEN Null ELSE "/uploads/f",
                               createdAt |-> t]]]
              /\ resp' = resp
  /\ UNCHANGED <<variant, storeVars, liveVars>>

PostStatusSave(s) ==
  /\ reqs[s].kind = "post-status" /\ reqs[s].pc = "save"
  /\ statuses' = Append(statuses, reqs[s].st)
  /\ resp' = StatusResp(reqs[s], 200, "valid")
  /\ reqs' = [reqs EXCEPT ![s] = Idle]
  /\ UNCHANGED <<variant, users, messages, groups, liveVars, now, nextId, arrivals,
                 arrivalOf>>

\* Status.find().sort({createdAt: -1}).limit(50); statuses of equal
\* createdAt come in either order
feed(coll, natural) ==
  LET src == IF natural THEN coll ELSE Reverse(coll)
      sorted == SortSeq(src, LAMBDA x, y : x.createdAt > y.createdAt)
  IN  SubSeq(sorted, 1, Min(Len(sorted), FeedLimit))

FeedResp(list, cred, arr) ==
  [NoResp EXCEPT !.route = "feed", !.status = 200, !.cred = cred, !.arr = arr,
                 !.ids = Ids(list)]

GetFeed(budget, tok, natural) ==
  /\ variant = "phone"
  /\ arrivals < budget
  /\ arrivals' = arrivals + 1
  /\ resp' = IF ~AuthMiddleware(tok).ok
               THEN Rejected("feed", tok, arrivals + 1)
               ELSE FeedResp(feed(statuses, natural), tok.kind, arrivals + 1)
  /\ UNCHANGED <<variant, storeVars, liveVars, reqs, now, nextId, arrivalOf>>

\* "legacy": no gate; user is taken from the body, a file is required
LegacyPostStatusArrive(S, budget, horizon, tok, user, file) ==
  /\ variant = "legacy"
  /\ Accept(S, budget)
  /\ arrivals' = arrivals + 1
  /\ IF file = Null
       THEN /\ resp' = [NoResp EXCEPT !.route = "status", !.status = 400,
                          !.error = "No file uploaded", !.cred = tok.kind,
                          !.arr = arrivals + 1]
            /\ UNCHANGED <<reqs, now, nextId, arrivalOf>>
       ELSE \E t \in now..horizon :
              /\ now' = t
              /\ nextId' = nextId + 1
              /\ arrivalOf' = Append(arrivalOf, arrivals + 1)
              /\ reqs' = [reqs EXCEPT ![FreeSlot(S)] =
                    [Idle EXCEPT !.kind = "legacy-status", !.pc = "save",
                       !.cred = tok.kind, !.arr = arrivals + 1,
                       !.st = [NoStatus EXCEPT !.id = nextId + 1, !.user = user,
                                 !.fileUrl = "/uploads/f", !.createdAt = t]]]
              /\ resp' = resp
  /\ UNCHANGED <<variant, storeVars, liveVars>>

LegacyPostStatusSave(s) ==
  /\ reqs[s].kind = "legacy-status" /\ reqs[s].pc = "save"
  /\ statuses' = Append(statuses, reqs[s].st)
  /\ resp' = StatusResp(reqs[s], 200, reqs[s].cred)
  /\ reqs' = [reqs EXCEPT ![s] = Idle]
  /\ UNCHANGED <<variant, users, messages, groups, liveVars, now, nextId, arrivals,
                 arrivalOf>>

\* Status.find().sort({createdAt: -1}): no limit
legacyFeed(coll, natural) ==
  LET src == IF natural THEN coll ELSE Reverse(coll)
  IN  SortSeq(src, LAMBDA x, y : x.createdAt > y.createdAt)

LegacyGetFeed(budget, tok, natural) ==
  /\ variant = "legacy"
  /\ arrivals < budget
  /\ arrivals' = arrivals + 1
  /\ resp' = FeedResp(legacyFeed(statuses, natural), tok.kind, arrivals + 1)
  /\ UNCHANGED <<variant, storeVars, liveVars, reqs, now, nextId, arrivalOf>>

-----------------------------------------------------------------------------
(* SpecStatus: either server, with 0, 49 or 50 statuses stored one        *)
(* millisecond apart; a and b post statuses and read the feed.            *)

OldStatus(i) ==
  [NoStatus EXCEPT !.id = i, !.user = IF i % 2 = 1 THEN "a" ELSE "b",
                   !.text = "old", !.fileUrl = "/uploads/f", !.createdAt = i]

StatusBacklog(n) == [i \in 1..n |-> OldStatus(i)]

\* the clock when the scenario starts: after every stored status
StatusEpoch == FeedLimit + 1

InitStatus ==
  \E v \in {"phone", "legacy"}, n \in {0, FeedLimit - 1, FeedLimit} :
    InitAt(v, BaseUsers, <<>>, StatusBacklog(n), <<>>, {}, StatusEpoch)

NextStatus ==
  \/ \E p \in {"a", "b"}, file \in {Null, "f"} :
       PostStatusArrive(Slots, MaxStatusReqs, StatusEpoch + MaxStatusClock,
                        TokenOf(p), "hi", file)
  \/ \E s \in Slots : PostStatusSave(s)
  \/ \E natural \in BOOLEAN : GetFeed(MaxStatusReqs, TokenOf("a"), natural)
  \/ \E p \in {"a", "b"}, file \in {Null, "f"} :
       LegacyPostStatusArrive(Slots, MaxStatusReqs, StatusEpoch + MaxStatusClock,
                              NoToken, p, file)
  \/ \E s \in Slots : LegacyPostStatusSave(s)
  \/ \E natural \in BOOLEAN : LegacyGetFeed(MaxStatusReqs, NoToken, natural)

SpecStatus == InitStatus /\ [][NextStatus]_vars

CreatedAtOf(id) == ById(statuses, id)[1].createdAt

(* C9: a feed response has at most 50 entries, no status left out is      *)
(* newer than one listed, the entries are strictly descending by creation *)
(* time, and with 50 or more stored statuses it has exactly 50 entries.   *)
C9_FeedIsLatestFifty ==
  (resp.route = "feed" /\ resp.status = 200)
  => /\ Len(resp.ids) <= FeedLimit
     /\ \A i \in 1..Len(statuses) :
          statuses[i].id \notin {resp.ids[k] : k \in 1..Len(resp.ids)}
          => \A k \in 1..Len(resp.ids) :
               CreatedAtOf(resp.ids[k]) >= statuses[i].createdAt
     /\ \A k \in 1..(Len(resp.ids) - 1) :
          CreatedAtOf(resp.ids[k]) > CreatedAtOf(resp.ids[k + 1])
     /\ (Len(statuses) >= FeedLimit => Len(resp.ids) = FeedLimit)

-----------------------------------------------------------------------------
(* The liveness check of the "phone" server, and the message routes of    *)
(* the "legacy" server, which has no gate: a credential the client sends  *)
(* is not looked at (it is kept in the slot to tell whose request it was).*)

\* GET /ping: no middleware
Ping(budget, tok) ==
  /\ variant = "phone"
  /\ arrivals < budget
  /\ arrivals' = arrivals + 1
  /\ resp' = [NoResp EXCEPT !.route = "ping", !.status = 200, !.cred = tok.kind,
                 !.arr = arrivals + 1]
  /\ UNCHANGED <<variant, storeVars, liveVars, reqs, now, nextId, arrivalOf>>

ByUsername(coll, u) == SelectSeq(coll, LAMBDA d : d.username = u)

LegacyResp(r, route, status) ==
  [NoResp EXCEPT !.route = route, !.status = status, !.cred = r.cred,
                 !.id = r.msg.id, !.arr = r.arr]

\* POST /api/messages: User.findOne({username: sender}) is awaited
LegacySendArrive(S, budget, tok, sender, receiver, text, isGroup) ==
  /\ variant = "legacy"
  /\ Accept(S, budget)
  /\ arrivals' = arrivals + 1
  /\ reqs' = [reqs EXCEPT ![FreeSlot(S)] =
        [Idle EXCEPT !.kind = "legacy-send", !.pc = "findSender",
           !.cred = tok.kind, !.arr = arrivals + 1,
           !.msg = [NoMsg EXCEPT !.sender = sender, !.receiver = receiver,
                      !.text = text, !.isGroup = isGroup]]]
  /\ UNCHANGED <<variant, storeVars, liveVars, now, nextId, arrivalOf, resp>>

\* senderData.avatar: with no such user the read of null throws in the
\* async handler, which has no catch: the request is never answered
LegacySendFindSender(s, horizon) ==
  /\ reqs[s].kind = "legacy-send" /\ reqs[s].pc = "findSender"
  /\ LET senderData == ByUsername(users, reqs[s].msg.sender)
     IN  IF senderData = <<>>
           THEN /\ resp' = LegacyResp(reqs[s], "send", 0)
                /\ reqs' = [reqs EXCEPT ![s] = Idle]
                /\ UNCHANGED <<now, nextId, arrivalOf>>
           ELSE \E t \in now..horizon :
                  /\ now' = t
                  /\ nextId' = nextId + 1
                  /\ arrivalOf' = Append(arrivalOf, reqs[s].arr)
                  /\ reqs' = [reqs EXCEPT ![s].pc = "save",
                        ![s].msg = [@ EXCEPT !.id = nextId + 1, !.createdAt = t,
                                      !.fileUrl = Undefined,
                                      !.senderAvatar = senderData[1].avatar]]
                  /\ resp' = resp
  /\ UNCHANGED <<variant, storeVars, liveVars, arrivals>>

LegacySendSave(s) ==
  /\ reqs[s].kind = "legacy-send" /\ reqs[s].pc = "save"
  /\ messages' = Append(messages, reqs[s].msg)
  /\ resp' = LegacyResp(reqs[s], "send", 200)
  /\ reqs' = [reqs EXCEPT ![s] = Idle]
  /\ UNCHANGED <<variant, users, statuses, groups, liveVars, now, nextId, arrivals,
                 arrivalOf>>

\* DELETE /api/message/:id/:user: Message.findByIdAndDelete(id), then
\* {msg: "Deleted"}; an id that is no ObjectId makes it reject, and the
\* request is never answered
LegacyDelete(budget, tok, id, user) ==
  /\ variant = "legacy"
  /\ arrivals < budget
  /\ arrivals' = arrivals + 1
  /\ messages' = RemoveById(messages, id)
  /\ resp' = [NoResp EXCEPT !.route = "delete", !.cred = tok.kind, !.id = id,
                 !.status = IF id = BadId THEN 0 ELSE 200,
                 !.phone = user, !.arr = arrivals + 1]
  /\ UNCHANGED <<variant, users, statuses, groups, liveVars, reqs, now, nextId,
                 arrivalOf>>

-----------------------------------------------------------------------------
(* SpecGate: either server with one stored message of a to b; requests    *)
(* come with no token, with a token jwt.verify rejects, or with a's token.*)

LegacyUsers == <<[UserDoc(1, Undefined, "/uploads/a.png") EXCEPT !.username = "a"],
                 [UserDoc(2, Undefined, Null) EXCEPT !.username = "b"]>>

Credentials == {NoToken, BadToken, TokenOf("a")}

InitGate ==
  \/ InitWith("phone", BaseUsers, <<OldMessage(1)>>, <<>>, <<>>, {"b"})
  \/ InitWith("legacy", LegacyUsers, <<OldMessage(1)>>, <<>>, <<>>, {})

NextGate ==
  \/ \E tok \in Credentials : Ping(MaxGateReqs, tok)
  \/ \E tok \in Credentials :
       RestSendArrive(Slots, MaxGateReqs, tok, "a", "b", "t1", "str:false", Null)
  \/ \E s \in Slots : RestSendFindSender(s, 0)
  \/ \E s \in Slots : RestSendSave(s)
  \/ \E tok \in Credentials : DeleteArrive(Slots, MaxGateReqs, tok, 1, "a")
  \/ \E s \in Slots : DeleteFind(s)
  \/ \E s \in Slots : DeleteRemove(s)
  \/ \E tok \in Credentials : GetMessages(MaxGateReqs, tok, "a", "b", TRUE)
  \/ \E tok \in Credentials : PostStatusArrive(Slots, MaxGateReqs, 0, tok, "hi", Null)
  \/ \E s \in Slots : PostStatusSave(s)
  \/ \E tok \in Credentials : GetFeed(MaxGateReqs, tok, TRUE)
  \/ \E tok \in Credentials : CreateGroup(MaxGateReqs, tok, "g", <<"a", "b">>)
  \/ \E tok \in Credentials : Connect("c1", tok)
  \/ \E tok \in Credentials :
       LegacySendArrive(Slots, MaxGateReqs, tok, "a", "b", "t1", FALSE)
  \/ \E s \in Slots : LegacySendFindSender(s, 0)
  \/ \E s \in Slots : LegacySendSave(s)
  \/ \E tok \in Credentials : LegacyDelete(MaxGateReqs, tok, 1, "a")
  \/ \E tok \in Credentials :
       LegacyPostStatusArrive(Slots, MaxGateReqs, 0, tok, "a", "f")
  \/ \E s \in Slots : LegacyPostStatusSave(s)
  \/ \E tok \in Credentials : LegacyGetFeed(MaxGateReqs, tok, TRUE)

SpecGate == InitGate /\ [][NextGate]_vars

DataRoutes == {"send", "delete", "history", "status", "feed", "group-create"}

(* C10: a request to a data route that carries no credential is answered  *)
(* 401 Unauthorized, one with a rejected token 401 Invalid token, and the *)
(* step that answers it changes neither the store nor any inbox or room;  *)
(* a socket whose handshake carried no valid token is never in a room.    *)
C10_GateBeforeEveryDataPath ==
  /\ [][(resp' # resp /\ resp'.route \in DataRoutes /\ resp'.cred # "valid")
         => /\ resp'.status = 401
            /\ resp'.error = IF resp'.cred = "none" THEN "Unauthorized"
                                                    ELSE "Invalid token"
            /\ UNCHANGED <<storeVars, liveVars>>]_vars
  /\ [](\A c \in Channels :
          chan[c].state = "refused" => \A id \in Identities : c \notin rooms[id])

-----------------------------------------------------------------------------
(* SpecEquiv: the same payloads {sender, receiver, text, isGroup} go to   *)
(* POST /api/messages (no file) and to the socket event 'send-message'.   *)
(* isGroup is a JSON boolean or absent, which both paths convert alike.   *)
(* a (who has an avatar) and b are online, group g1 = {a, b, c} exists.   *)

EquivSenders == {"a", "b", Missing}
EquivReceivers == {"b", "g1"}
EquivIsGroup == {"bool:true", "bool:false", Undefined}

InitEquiv == InitWith("phone", BaseUsers, <<>>, <<>>, <<GroupABC>>, {"a", "b"})

NextEquiv ==
  \/ \E sender \in EquivSenders, receiver \in EquivReceivers, g \in EquivIsGroup :
       RestSendArrive(Slots, MaxEquivReqs, TokenOf("a"), sender, receiver, "t1", g, Null)
  \/ \E s \in Slots : RestSendFindSender(s, 0)
  \/ \E s \in Slots : RestSendSave(s)
  \/ \E s \in Slots : RestSendFindGroup(s)
  \/ \E sender \in EquivSenders, receiver \in EquivReceivers, g \in EquivIsGroup :
       SockSendArrive(Slots, MaxEquivReqs, 0, "c1", sender, receiver, "t1", g)
  \/ \E s \in Slots : SockSendSave(s)
  \/ \E s \in Slots : SockSendFindGroup(s)

SpecEquiv == InitEquiv /\ [][NextEquiv]_vars

\* the avatar snapshot of a document, null and absent taken as one
Snapshot(m) == IF Falsy(m.senderAvatar) THEN Null ELSE m.senderAvatar

\* handler s has constructed its document and awaits msg.save()
Saving(s, kind) == reqs[s].kind = kind /\ reqs[s].pc = "save"

(* C11: (record) when a REST send and a socket send of the same sender,   *)
(* receiver, text and isGroup both have their document ready to be saved, *)
(* the two documents agree on these fields and on the sender-avatar       *)
(* snapshot; (rejection) the socket path saves no document with a missing *)
(* sender (or receiver), which the REST path rejects with 400.            *)
C11_SocketSendEqualsRestSend ==
  /\ \A s, t \in Slots :
       (/\ Saving(s, "rest-send") /\ Saving(t, "sock-send")
        /\ reqs[s].msg.sender = reqs[t].msg.sender
        /\ reqs[s].msg.receiver = reqs[t].msg.receiver
        /\ reqs[s].msg.text = reqs[t].msg.text
        /\ reqs[s].msg.isGroup = reqs[t].msg.isGroup)
       => Snapshot(reqs[s].msg) = Snapshot(reqs[t].msg)
  /\ \A t \in Slots :
       Saving(t, "sock-send")
       => ~Falsy(reqs[t].msg.sender) /\ ~Falsy(reqs[t].msg.receiver)

-----------------------------------------------------------------------------
(* msg.save() can reject (the database is unreachable, the write fails).  *)

\* POST /api/messages: the rejection lands in the catch, which answers 500
RestSendSaveRejects(s) ==
  /\ reqs[s].kind = "rest-send" /\ reqs[s].pc = "save"
  /\ resp' = SendFailed(reqs[s])
  /\ reqs' = [reqs EXCEPT ![s] = Idle]
  /\ UNCHANGED <<variant, storeVars, liveVars, now, nextId, arrivals, arrivalOf>>

\* 'send-message': the rejection lands in the catch, which logs; nothing
\* is emitted and the event has no acknowledgement
SockSendSaveRejects(s) ==
  /\ reqs[s].kind = "sock-send" /\ reqs[s].pc = "save"
  /\ resp' = SockDone(reqs[s])
  /\ reqs' = [reqs EXCEPT ![s] = Idle]
  /\ UNCHANGED <<variant, storeVars, liveVars, now, nextId, arrivals, arrivalOf>>

-----------------------------------------------------------------------------
(* SpecFailure: everybody is online, group g1 = {a, b, c} exists; a sends *)
(* direct messages to b and group messages to g1 on both paths, and any   *)
(* save may reject.                                                        *)

FailureTargets == {<<"b", "bool:false">>, <<"g1", "bool:true">>}

InitFailure == InitWith("phone", BaseUsers, <<>>, <<>>, <<GroupABC>>, Identities)

NextFailure ==
  \/ \E t \in FailureTargets :
       RestSendArrive(Slots, MaxFailureReqs, TokenOf("a"), "a", t[1], "t1", t[2], Null)
  \/ \E s \in Slots : RestSendFindSender(s, 0)
  \/ \E s \in Slots : RestSendSave(s)
  \/ \E s \in Slots : RestSendSaveRejects(s)
  \/ \E s \in Slots : RestSendFindGroup(s)
  \/ \E t \in FailureTargets :
       SockSendArrive(Slots, MaxFailureReqs, 0, "c1", "a", t[1], "t1", t[2])
  \/ \E s \in Slots : SockSendSave(s)
  \/ \E s \in Slots : SockSendSaveRejects(s)
  \/ \E s \in Slots : SockSendFindGroup(s)

SpecFailure == InitFailure /\ [][NextFailure]_vars

\* handler s leaves its save in this step with its document not stored
SaveFailed(s) ==
  /\ reqs[s].kind \in {"rest-send", "sock-send"}
  /\ reqs[s].pc = "save"
  /\ reqs'[s] # reqs[s]
  /\ reqs[s].msg.id \notin IdSet(messages')

\* channel c gets (another copy of) event ev in this step
Gets(c, ev) == CopiesIn(ev, inbox'[c]) > CopiesIn(ev, inbox[c])

(* C12: when the save of a message fails, on either path, no channel gets *)
(* the 'message' event, and the caller is told: the REST response is an   *)
(* error, or the sending socket gets some event back.                     *)
C12_FailedSaveIsReported ==
  [][\A s \in Slots :
       SaveFailed(s)
       => /\ \A c \in Channels : ~Gets(c, MessageEvent(reqs[s].msg))
          /\ \/ resp'.arr = reqs[s].arr /\ resp'.status >= 400
             \/ \E c \in Channels :
                  BoundTo(c, reqs[s].user) /\ inbox'[c] # inbox[c]]_vars

(* C15: a channel gets the 'message' event of a message only in or after  *)
(* the step in which that message was appended to the store, on both      *)
(* paths and also when saves fail: every event delivered, and every event *)
(* ever held by a channel, is that of a stored message.                   *)
C15_PushOnlyAfterPersist ==
  /\ [][\A c \in Channels, i \in 1..nextId :
          Gets(c, MessageEvent([id |-> i])) => i \in IdSet(messages')]_vars
  /\ [](\A c \in Channels, i \in 1..nextId :
          BagIn(MessageEvent([id |-> i]), inbox[c]) => i \in IdSet(messages))

\* b's socket holds the event of a stored REST message and of a stored
\* socket message, one of them a group message
C15_Witness ==
  \E i, j \in 1..Len(messages) :
    /\ messages[i].senderAvatar # Undefined /\ messages[j].senderAvatar = Undefined
    /\ messages[i].isGroup # messages[j].isGroup
    /\ BagIn(MessageEvent(messages[i]), inbox["c2"])
    /\ BagIn(MessageEvent(messages[j]), inbox["c2"])

-----------------------------------------------------------------------------
(* Contacts and login.                                                     *)

\* the projection 'phone username avatar' (which keeps _id)
Projected(u) == [id |-> u.id, phone |-> u.phone, username |-> u.username,
                 avatar |-> u.avatar]

\* "phone" server, POST /api/contacts/sync: gate, contacts must be an
\* array (isArray), then User.find({phone: {$in: contacts}}, 'phone username avatar')
ContactsSync(budget, tok, isArray, contacts) ==
  /\ variant = "phone"
  /\ arrivals < budget
  /\ arrivals' = arrivals + 1
  /\ resp' = IF ~AuthMiddleware(tok).ok
               THEN Rejected("contacts-sync", tok, arrivals + 1)
             ELSE IF ~isArray
               THEN [NoResp EXCEPT !.route = "contacts-sync", !.status = 400,
                       !.error = "contacts must be array", !.cred = tok.kind,
                       !.arr = arrivals + 1]
             ELSE LET registered ==
                        SelectSeq(users, LAMBDA u :
                          \E i \in 1..Len(contacts) : contacts[i] = u.phone)
                  IN  [NoResp EXCEPT !.route = "contacts-sync", !.status = 200,
                         !.cred = tok.kind, !.arr = arrivals + 1, !.asked = contacts,
                         !.body = [i \in 1..Len(registered) |-> Projected(registered[i])]]
  /\ UNCHANGED <<variant, storeVars, liveVars, reqs, now, nextId, arrivalOf>>

\* "username" server, GET /api/contacts/:username: gate, then
\* User.find({username: {$ne: username}}) and the documents are the response
UserContacts(budget, tok, username) ==
  /\ variant = "username"
  /\ arrivals < budget
  /\ arrivals' = arrivals + 1
  /\ resp' = IF ~AuthMiddleware(tok).ok
               THEN Rejected("contacts", tok, arrivals + 1)
               ELSE [NoResp EXCEPT !.route = "contacts", !.status = 200,
                       !.cred = tok.kind, !.arr = arrivals + 1,
                       !.body = SelectSeq(users, LAMBDA u : u.username # username)]
  /\ UNCHANGED <<variant, storeVars, liveVars, reqs, now, nextId, arrivalOf>>

\* "phone" server, POST /auth/login: User.findOne by phone (or by username
\* when no phone is given), bcrypt.compare, then the token whose payload
\* is the user's phone, with phone, username and avatar
Login(budget, phone, username, password) ==
  /\ variant = "phone"
  /\ arrivals < budget
  /\ arrivals' = arrivals + 1
  /\ LET found == IF ~Falsy(phone) THEN ByPhone(users, phone)
                   ELSE SelectSeq(users, LAMBDA u : u.username = username)
         answer(status, error) ==
           [NoResp EXCEPT !.route = "login", !.status = status, !.error = error,
                          !.phone = phone, !.arr = arrivals + 1]
     IN  resp' = IF (Falsy(phone) /\ Falsy(username)) \/ Falsy(password)
                   THEN answer(400, "Missing fields")
                 ELSE IF found = <<>>
                   THEN answer(401, "Invalid credentials")
                 ELSE IF Hash(password) # found[1].password
                   THEN answer(401, "Invalid credentials")
                 ELSE [answer(200, Undefined) EXCEPT
                         !.token = TokenOf(found[1].phone),
                         !.body = <<[phone |-> found[1].phone,
                                     username |-> found[1].username,
                                     avatar |-> found[1].avatar]>>]
  /\ UNCHANGED <<variant, storeVars, liveVars, reqs, now, nextId, arrivalOf>>

-----------------------------------------------------------------------------
(* SpecContacts: the "phone" server with users a..d, or the "username"    *)
(* server with users a and b; users register, log in and ask for contacts.*)

ContactLists == {<<>>, <<"a">>, <<"z">>, <<"a", "b">>, <<"+1", "a">>, <<"a", "z", "a">>}

InitContacts ==
  \/ InitWith("phone", BaseUsers, <<>>, <<>>, <<>>, {})
  \/ InitWith("username", LegacyUsers, <<>>, <<>>, <<>>, {})

NextContacts ==
  \/ \E tok \in Credentials, contacts \in ContactLists :
       ContactsSync(MaxContactsReqs, tok, TRUE, contacts)
  \/ ContactsSync(MaxContactsReqs, TokenOf("a"), FALSE, <<>>)
  \/ \E tok \in Credentials, username \in {"a", "z"} :
       UserContacts(MaxContactsReqs, tok, username)
  \/ \E phone \in {"a", "z", Undefined}, password \in {"pw", "no", Undefined} :
       Login(MaxContactsReqs, phone, Undefined, password)
  \/ PhoneRegisterArrive(Slots, MaxContactsReqs, "1", "+", "u", "pw")
  \/ \E s \in Slots : PhoneRegisterFindOne(s)
  \/ \E s \in Slots : PhoneRegisterSave(s)
  \/ UserRegisterArrive(Slots, MaxContactsReqs, "u", "pw")
  \/ \E s \in Slots : UserRegisterSave(s)

SpecContacts == InitContacts /\ [][NextContacts]_vars

(* C14: a contacts-sync response lists, once each, exactly the candidates *)
(* that are registered; no response of a contacts, register or login      *)
(* route carries a password hash.                                          *)
C14_ContactsExactAndNoHash ==
  /\ (resp.route = "contacts-sync" /\ resp.status = 200)
     => /\ {resp.body[i].phone : i \in 1..Len(resp.body)}
             = Range(resp.asked) \cap {users[i].phone : i \in 1..Len(users)}
        /\ \A i, j \in 1..Len(resp.body) :
             resp.body[i].phone = resp.body[j].phone => i = j
  /\ resp.route \in {"contacts-sync", "contacts", "register", "login"}
     => \A i \in 1..Len(resp.body) : "password" \notin DOMAIN resp.body[i]

-----------------------------------------------------------------------------
(* SpecHandshake: a and b log in; sockets c1 and c2 connect with the      *)
(* token of the last login response, with no token or with a token        *)
(* jwt.verify rejects; a and b send each other direct messages.           *)

InitHandshake == InitWith("phone", BaseUsers, <<>>, <<>>, <<>>, {})

NextHandshake ==
  \/ \E phone \in {"a", "b"}, password \in {"pw", "no"} :
       Login(MaxHandshakeReqs, phone, Undefined, password)
  \/ \E c \in {"c1", "c2"} : Connect(c, resp.token)
  \/ \E c \in {"c1", "c2"} : Connect(c, BadToken)
  \/ \E c \in {"c1", "c2"} : Disconnect(c)
  \/ \E p \in {"a", "b"} :
       RestSendArrive(Slots, MaxHandshakeReqs, TokenOf(p), p,
                      IF p = "a" THEN "b" ELSE "a", "t1", "bool:false", Null)
  \/ \E s \in Slots : RestSendFindSender(s, 0)
  \/ \E s \in Slots : RestSendSave(s)

SpecHandshake == InitHandshake /\ [][NextHandshake]_vars

\* the handshake of channel c is decided in this step
Handshake(c) == chan[c].state = "new" /\ chan'[c].state # "new"

(* C16: a handshake binds the channel only when its token verifies - here *)
(* the token a login issued - and then to the identity in that token and  *)
(* to no other; otherwise the channel is refused and no room changes.  A  *)
(* channel is in a room only while it is open, and only in the room of    *)
(* its token's identity; a refused channel holds no event.                *)
C16_BoundOnlyAsTokenSays ==
  /\ [][\A c \in Channels :
          Handshake(c)
          => IF chan'[c].state = "open"
               THEN /\ resp.token.kind = "valid"
                    /\ chan'[c].phone = resp.token.phone
                    /\ \A id \in Identities :
                         rooms'[id] = IF id = resp.token.phone
                                        THEN rooms[id] \cup {c} ELSE rooms[id]
               ELSE chan'[c].state = "refused" /\ rooms' = rooms]_vars
  /\ [](\A c \in Channels :
          /\ \A id \in Identities : c \in rooms[id] => BoundTo(c, id)
          /\ chan[c].state \in {"new", "refused"} => inbox[c] = EmptyBag)

\* c1 was refused and holds nothing, while c2, bound to a, got a message
\* that b sent to a
C16_Witness ==
  /\ chan["c1"].state = "refused" /\ inbox["c1"] = EmptyBag
  /\ BoundTo("c2", "a") /\ rooms["a"] = {"c2"} /\ rooms["b"] = {}
  /\ \E i \in 1..Len(messages) :
       messages[i].receiver = "a" /\ BagIn(MessageEvent(messages[i]), inbox["c2"])

-----------------------------------------------------------------------------
(* SpecOffline: b (online) sends direct messages to a on both paths while *)
(* a's socket c1 connects and disconnects; a fetches the history.         *)

InitOffline == InitWith("phone", BaseUsers, <<>>, <<>>, <<>>, {"b"})

NextOffline ==
  \/ Connect("c1", TokenOf("a"))
  \/ Disconnect("c1")
  \/ RestSendArrive(Slots, MaxOfflineReqs, TokenOf("b"), "b", "a", "t1", "bool:false", Null)
  \/ \E s \in Slots : RestSendFindSender(s, 0)
  \/ \E s \in Slots : RestSendSave(s)
  \/ SockSendArrive(Slots, MaxOfflineReqs, 0, "c2", "b", "a", "t1", "bool:false")
  \/ \E s \in Slots : SockSendSave(s)
  \/ \E natural \in BOOLEAN : GetMessages(MaxOfflineReqs, TokenOf("a"), "a", "b", natural)

SpecOffline == InitOffline /\ [][NextOffline]_vars

(* C17: when a direct message is dispatched while no channel is bound to  *)
(* its receiver, the record is in the store and only channels of the      *)
(* sender get the event; a channel gets the event of a message in no step *)
(* but the dispatch of that message - in particular a handshake delivers  *)
(* nothing - so a channel bound later never gets it as a push.            *)
C17_OfflineMessageIsNeverPushed ==
  [][/\ \A s \in Slots :
          (DirectPush(s) /\ rooms[reqs[s].msg.receiver] = {})
          => /\ reqs[s].msg.id \in IdSet(messages')
             /\ \A c \in Channels :
                  inbox'[c] # inbox[c] => BoundTo(c, reqs[s].msg.sender)
     /\ \A c \in Channels :
          /\ Handshake(c) => inbox' = inbox
          /\ \A i \in 1..nextId :
               Gets(c, MessageEvent([id |-> i]))
               => \E s \in Slots : DirectPush(s) /\ reqs[s].msg.id = i]_vars

\* a message for a is stored; a's socket, open now, holds no event; a's
\* history fetch lists the message
C17_Witness ==
  /\ BoundTo("c1", "a") /\ inbox["c1"] = EmptyBag
  /\ resp.route = "history" /\ resp.status = 200
  /\ \E i \in 1..Len(messages) :
       /\ messages[i].receiver = "a"
       /\ messages[i].id \in Range(resp.ids)
       /\ BagIn(MessageEvent(messages[i]), inbox["c2"])

-----------------------------------------------------------------------------
(* SpecNotice: the store holds a direct message of a to b (id 1) and a    *)
(* group message of a to g1 = {a, b, c} (id 2); a, b and c are online, b  *)
(* may open a second socket (c4) and close the first; a and b delete.     *)

NoticeMessages ==
  <<OldMessage(1),
    [OldMessage(2) EXCEPT !.sender = "a", !.receiver = "g1", !.isGroup = TRUE]>>

InitNotice ==
  InitWith("phone", BaseUsers, NoticeMessages, <<>>, <<GroupABC>>, {"a", "b", "c"})

NextNotice ==
  \/ Connect("c4", TokenOf("b"))
  \/ Disconnect("c2")
  \/ \E p \in {"a", "b"}, id \in {BadId, 1, 2, 9}, phone \in {"a", "b"} :
       DeleteArrive(Slots, MaxNoticeReqs, TokenOf(p), id, phone)
  \/ \E s \in Slots : DeleteFind(s)
  \/ \E s \in Slots : DeleteRemove(s)

SpecNotice == InitNotice /\ [][NextNotice]_vars

\* delete handler s, in this step, gets deleteOne resolved and answers 200
Deleted(s) ==
  /\ reqs[s].kind = "delete" /\ reqs[s].pc = "deleteOne"
  /\ reqs'[s] = Idle

(* C19: the step that completes a deletion gives every channel bound to   *)
(* the receiver field of the deleted message exactly one 'message-deleted'*)
(* event with the id, and changes no other channel's inbox (not the       *)
(* sender's, not those of the members of the group named by the receiver  *)
(* field); no other step of a delete request - rejected, not found,       *)
(* forbidden, failed - changes any inbox.                                  *)
C19_NoticeToReceiverOnly ==
  [][IF \E s \in Slots : Deleted(s)
       THEN \A s \in Slots :
              Deleted(s)
              => /\ resp'.status = 200
                 /\ \A c \in Channels :
                      inbox'[c] = IF BoundTo(c, reqs[s].msg.receiver)
                                    THEN inbox[c] (+) SetToBag({DeletedEvent(reqs[s].id)})
                                    ELSE inbox[c]
       ELSE inbox' = inbox]_vars

\* both messages were deleted: b's two sockets hold the notice of the
\* direct message once each, nobody holds a notice of the group message,
\* and the sockets of a and c hold nothing
C19_Witness ==
  /\ IdSet(messages) = {}
  /\ BoundTo("c2", "b") /\ BoundTo("c4", "b")
  /\ CopiesIn(DeletedEvent(1), inbox["c2"]) = 1
  /\ CopiesIn(DeletedEvent(1), inbox["c4"]) = 1
  /\ \A c \in Channels : ~BagIn(DeletedEvent(2), inbox[c])
  /\ BoundTo("c1", "a") /\ inbox["c1"] = EmptyBag
  /\ BoundTo("c3", "c") /\ inbox["c3"] = EmptyBag

-----------------------------------------------------------------------------
(* PUT /user/:phone/profile ("phone" server): gate; username and password *)
(* are set when given, avatar when a file is uploaded; then               *)
(* User.updateOne({phone}, {$set: updates}).  A username another user     *)
(* holds breaks the unique index: the catch answers 500.                  *)

\* the updates applied to a user document
Updated(u, username, password, file) ==
  [u EXCEPT !.username = IF Falsy(username) THEN @ ELSE username,
            !.password = IF Falsy(password) THEN @ ELSE Hash(password),
            !.avatar = IF file = Null THEN @ ELSE "/uploads/new.png"]

ProfileResp(tok, phone, status, error) ==
  [NoResp EXCEPT !.route = "profile", !.status = status, !.error = error,
                 !.cred = tok.kind, !.phone = phone, !.arr = arrivals + 1]

\* (mutant) the update also rewrites the snapshot in the sender's messages
UpdateProfileLive(budget, tok, phone, username, password, file) ==
  /\ variant = "phone"
  /\ arrivals < budget
  /\ arrivals' = arrivals + 1
  /\ IF ~AuthMiddleware(tok).ok
       THEN /\ resp' = Rejected("profile", tok, arrivals + 1)
            /\ UNCHANGED <<users, messages>>
       ELSE /\ users' = [i \in 1..Len(users) |->
                          IF users[i].phone = phone
                            THEN Updated(users[i], username, password, file)
                            ELSE users[i]]
            /\ messages' = [i \in 1..Len(messages) |->
                  IF messages[i].sender = phone /\ file # Null
                    THEN [messages[i] EXCEPT !.senderAvatar = "/uploads/new.png"]
                    ELSE messages[i]]
            /\ resp' = ProfileResp(tok, phone, 200, Undefined)
  /\ UNCHANGED <<variant, statuses, groups, liveVars, reqs, now, nextId, arrivalOf>>

UpdateProfile(budget, tok, phone, username, password, file) ==
  /\ variant = "phone"
  /\ arrivals < budget
  /\ arrivals' = arrivals + 1
  /\ IF ~AuthMiddleware(tok).ok
       THEN /\ resp' = Rejected("profile", tok, arrivals + 1)
            /\ users' = users
     ELSE IF /\ ~Falsy(username)
             /\ \E i \in 1..Len(users) : /\ ByPhone(users, phone) # <<>>
                                         /\ users[i].phone # phone
                                         /\ users[i].username = username
       THEN /\ resp' = ProfileResp(tok, phone, 500, "Update failed")
            /\ users' = users
     ELSE /\ users' = [i \in 1..Len(users) |->
                        IF users[i].phone = phone
                          THEN Updated(users[i], username, password, file)
                          ELSE users[i]]
          /\ resp' = ProfileResp(tok, phone, 200, Undefined)
  /\ UNCHANGED <<variant, messages, statuses, groups, liveVars, reqs, now, nextId,
                 arrivalOf>>

-----------------------------------------------------------------------------
(* SpecProfile: a sends direct messages to b on both paths, changes name, *)
(* password and avatar, and deletes messages.                             *)

InitProfile == InitWith("phone", BaseUsers, <<>>, <<>>, <<>>, {"a", "b"})

NextProfile ==
  \/ \E tok \in {NoToken, TokenOf("a")}, username \in {Undefined, "anna"},
        password \in {Undefined, "pw2"}, file \in {Null, "f"} :
       UpdateProfile(MaxProfileReqs, tok, "a", username, password, file)
  \/ RestSendArrive(Slots, MaxProfileReqs, TokenOf("a"), "a", "b", "t1", "bool:false", Null)
  \/ \E s \in Slots : RestSendFindSender(s, 0)
  \/ \E s \in Slots : RestSendSave(s)
  \/ SockSendArrive(Slots, MaxProfileReqs, 0, "c1", "a", "b", "t1", "bool:false")
  \/ \E s \in Slots : SockSendSave(s)
  \/ \E id \in {1, 2} : DeleteArrive(Slots, MaxProfileReqs, TokenOf("a"), id, "a")
  \/ \E s \in Slots : DeleteFind(s)
  \/ \E s \in Slots : DeleteRemove(s)

SpecProfile == InitProfile /\ [][NextProfile]_vars

(* C20: in every step, a stored message either stays in the store with    *)
(* all its fields as they were, or it is gone and the step is the         *)
(* completion of a deletion of that message; profile updates of the       *)
(* sender change no stored message.                                        *)
C20_StoredMessagesAreImmutable ==
  [][\A i \in 1..Len(messages) :
       IF messages[i].id \in IdSet(messages')
         THEN ById(messages', messages[i].id) = <<messages[i]>>
         ELSE \E s \in Slots : Deleted(s) /\ reqs[s].msg.id = messages[i].id]_vars

\* a message a sent before changing avatar and name still carries the old
\* avatar, while a message sent afterwards carries the new one
C20_Witness ==
  /\ ByPhone(users, "a")[1].avatar = "/uploads/new.png"
  /\ ByPhone(users, "a")[1].username = "anna"
  /\ \E i, j \in 1..Len(messages) :
       /\ messages[i].sender = "a" /\ messages[i].senderAvatar = "/uploads/a.png"
       /\ messages[j].sender = "a" /\ messages[j].senderAvatar = "/uploads/new.png"

-----------------------------------------------------------------------------
(* PUT /user/:username/profile of the "username" server (gate, unique     *)
(* username index) and PUT /user/:user/profile of the "legacy" server (no *)
(* gate, no index): both put a given username into the update.            *)

UserUpdateProfile(budget, tok, user, username, password, file) ==
  /\ variant = "username"
  /\ arrivals < budget
  /\ arrivals' = arrivals + 1
  /\ IF ~AuthMiddleware(tok).ok
       THEN /\ resp' = Rejected("profile", tok, arrivals + 1)
            /\ users' = users
     ELSE IF /\ ~Falsy(username)
             /\ \E i \in 1..Len(users) : /\ ByUsername(users, user) # <<>>
                                         /\ users[i].username # user
                                         /\ users[i].username = username
       THEN /\ resp' = ProfileResp(tok, user, 500, "E11000 duplicate key")
            /\ users' = users
     ELSE /\ users' = [i \in 1..Len(users) |->
                        IF users[i].username = user
                          THEN Updated(users[i], username, password, file)
                          ELSE users[i]]
          /\ resp' = ProfileResp(tok, user, 200, Undefined)
  /\ UNCHANGED <<variant, messages, statuses, groups, liveVars, reqs, now, nextId,
                 arrivalOf>>

\* User.findOneAndUpdate({username: user}, update): the first match
LegacyUpdateProfile(budget, tok, user, username, password, file) ==
  /\ variant = "legacy"
  /\ arrivals < budget
  /\ arrivals' = arrivals + 1
  /\ users' = [i \in 1..Len(users) |->
                 IF users[i].username = user
                    /\ \A j \in 1..(i - 1) : users[j].username # user
                   THEN Updated(users[i], username, password, file)
                   ELSE users[i]]
  /\ resp' = ProfileResp(tok, user, 200, Undefined)
  /\ UNCHANGED <<variant, messages, statuses, groups, liveVars, reqs, now, nextId,
                 arrivalOf>>

-----------------------------------------------------------------------------
(* SpecIdentity: any of the three servers; a updates a profile.           *)

InitIdentity ==
  \/ InitWith("phone", BaseUsers, <<>>, <<>>, <<>>, {})
  \/ \E v \in {"username", "legacy"} : InitWith(v, LegacyUsers, <<>>, <<>>, <<>>, {})

NextIdentity ==
  \/ \E tok \in Credentials, phone \in {"a", "b", "z"}, username \in {Undefined, "anna"},
        password \in {Undefined, "pw2"}, file \in {Null, "f"} :
       UpdateProfile(MaxIdentityReqs, tok, phone, username, password, file)
  \/ \E tok \in Credentials, user \in {"a", "z"}, username \in {Undefined, "anna", "b"},
        password \in {Undefined, "pw2"}, file \in {Null, "f"} :
       UserUpdateProfile(MaxIdentityReqs, tok, user, username, password, file)
  \/ \E user \in {"a", "z"}, username \in {Undefined, "anna", "b"},
        password \in {Undefined, "pw2"}, file \in {Null, "f"} :
       LegacyUpdateProfile(MaxIdentityReqs, NoToken, user, username, password, file)

SpecIdentity == InitIdentity /\ [][NextIdentity]_vars

(* C21: no step changes the identity key of a user record (phone on the   *)
(* "phone" server, username on the other two).                            *)
C21_IdentityKeyNeverChanges ==
  [][\A i \in 1..Len(users) :
       /\ i <= Len(users')
       /\ users'[i].id = users[i].id
       /\ IdentityKey(users'[i]) = IdentityKey(users[i])]_vars

-----------------------------------------------------------------------------
(* C22: every stored message has a non-empty sender and a non-empty       *)
(* receiver, whichever path stored it; a response of 400 leaves the store *)
(* as it was.                                                             *)
C22_EveryRecordNamesBothParties ==
  /\ \A i \in 1..Len(messages) :
       ~Falsy(messages[i].sender) /\ ~Falsy(messages[i].receiver)
  /\ (resp.route = "send" /\ resp.status = 400) =>
       \A i \in 1..Len(messages) : arrivalOf[i] # resp.arr

-----------------------------------------------------------------------------
(* SpecRace: two channels of a (c1, c3) connect and disconnect while b    *)
(* sends to a and to the group abc, over REST and over its channel c2.    *)

RaceTargets == {<<"a", "bool:false">>, <<"g1", "bool:true">>}

InitRace == InitWith("phone", BaseUsers, <<>>, <<>>, <<GroupABC>>, {"b"})

NextRace ==
  \/ \E c \in {"c1", "c3"} : Connect(c, TokenOf("a"))
  \/ \E c \in {"c1", "c3"} : Disconnect(c)
  \/ \E t \in RaceTargets :
       RestSendArrive(Slots, MaxRaceReqs, TokenOf("b"), "b", t[1], "t1", t[2], Null)
  \/ \E s \in Slots : RestSendFindSender(s, 0)
  \/ \E s \in Slots : RestSendSave(s)
  \/ \E s \in Slots : RestSendFindGroup(s)
  \/ \E t \in RaceTargets :
       SockSendArrive(Slots, MaxRaceReqs, 0, "c2", "b", t[1], "t1", t[2])
  \/ \E s \in Slots : SockSendSave(s)
  \/ \E s \in Slots : SockSendFindGroup(s)

SpecRace == InitRace /\ [][NextRace]_vars

\* the identities the dispatch of handler s addresses
PushTargets(s) ==
  IF ~reqs[s].msg.isGroup THEN {reqs[s].msg.receiver, reqs[s].msg.sender}
  ELSE IF ById(groups, reqs[s].msg.receiver) = <<>> THEN {reqs[s].msg.sender}
  ELSE Range(ById(groups, reqs[s].msg.receiver)[1].members) \cup {reqs[s].msg.sender}

(* C23: whenever a handler dispatches its message, under any interleaving *)
(* of connects, disconnects and sends, the channels that get the event    *)
(* are exactly the channels bound at that moment to an addressed          *)
(* identity: a channel closed before the dispatch gets nothing and a      *)
(* channel bound before it gets the event, also when it was bound or      *)
(* closed after the message was stored.                                   *)
C23_PushGoesToChannelsBoundAtThePush ==
  [][\A s \in Slots :
       (DirectPush(s) \/ GroupDispatch(s))
       => \A c \in Channels :
            /\ (\E id \in PushTargets(s) : BoundTo(c, id))
                 => Gets(c, MessageEvent(reqs[s].msg))
            /\ ~(\E id \in PushTargets(s) : BoundTo(c, id))
                 => inbox'[c] = inbox[c]]_vars

\* the group message was stored first and dispatched last; in between the
\* direct message reached c3 and not c1 (both of a), and at the dispatch c1,
\* bound meanwhile, got the group message and c3, closed meanwhile, did not
C23_Witness ==
  /\ Len(messages) = 2
  /\ messages[1].isGroup /\ ~messages[2].isGroup
  /\ \A s \in Slots : reqs[s] = Idle
  /\ resp.id = messages[1].id
  /\ BagIn(MessageEvent(messages[2]), inbox["c3"])
  /\ ~BagIn(MessageEvent(messages[2]), inbox["c1"])
  /\ BagIn(MessageEvent(messages[1]), inbox["c1"])
  /\ ~BagIn(MessageEvent(messages[1]), inbox["c3"])

-----------------------------------------------------------------------------
(* C24: no channel holds more than one copy of the 'message' event of one *)
(* stored message: one send pushes it to each channel at most once, also  *)
(* when the sender is a member of the target group.                       *)
C24_OneCopyPerChannel ==
  \A c \in Channels : \A i \in 1..Len(messages) :
    CopiesIn(MessageEvent(messages[i]), inbox[c]) <= 1

-----------------------------------------------------------------------------
(* C25: every message a send handler stores, on the REST path or on the   *)
(* socket path, has as its sender the identity authenticated for that     *)
(* request or channel.                                                    *)
C25_StoredSenderIsAuthenticated ==
  [][\A s \in Slots :
       (Saving(s, "rest-send") \/ Saving(s, "sock-send"))
        /\ Len(messages') = Len(messages) + 1
       => messages'[Len(messages')].sender = reqs[s].user]_vars
====
